---- MODULE Spec2Model ----
(***************************************************************************)
(* NL-STV backend: the session service (core/services/session_service.py), *)
(* the upload and interact routes (api/data.py, api/chat.py) and one turn  *)
(* of the analysis workflow (core/services/workflow.py) as a state machine.*)
(*                                                                         *)
(* Conventions.  A file name is a sequence of tokens, <<"t", ".", "csv">>; *)
(* a sandbox path is the file name (os.path.join with the one fixed        *)
(* sandbox directory).  A table of the data context records the path and   *)
(* the bytes it was read from and whether it was a full load or a peek.    *)
(* Python's None is the record None.  The event loop runs one handler at a *)
(* time: execute_step contains no suspension point, so the steps of one    *)
(* turn are not interleaved with other requests (pc # "idle" disables      *)
(* them).                                                                  *)
(***************************************************************************)
EXTENDS Integers, Sequences, FiniteSets, TLC

VARIABLES
    sessions,   \* SessionManager._sessions: session id -> session state or None
    disk,       \* the sandbox directory: file name -> bytes or NoFile
    pc,         \* position of the request being handled ("idle" when none)
    payload,    \* the InteractionPayload of the turn being handled
    loc,        \* execute_step's local variables
    calls,      \* the component calls made while handling the current request, in order
    resp,       \* the HTTP response of the last finished request
    pre,        \* the session state as it was when the current request arrived
    owned,      \* per session: the bytes it uploaded itself, per path
    uuidCtr,    \* number of uuid4 values drawn so far
    nRequests,  \* number of requests and service calls so far
    unit        \* the component exercised on its own (executor, planner, layout, ingestion)

\* the variables of the service
service == <<sessions, disk, pc, payload, loc, calls, resp, pre, owned, uuidCtr, nRequests>>

vars == <<sessions, disk, pc, payload, loc, calls, resp, pre, owned, uuidCtr, nRequests, unit>>

----------------------------------------------------------------------------
\* Bounds of the model

MaxRequests == 3
MaxSnapshots == 1
MaxFiles == 1

----------------------------------------------------------------------------
\* Values

None == [none |-> TRUE]
NoFile == "nofile"

SessionIds == {"sA", "sB"}

\* file contents: two well-formed contents and one no loader can read
Bytes == {"b1", "b2", "bad"}

FileNames == { <<"t", ".", "csv">>, <<"T", ".", "dbf">>, <<"r", ".", "txt">> }

\* the names the sandbox directory can hold: the above and a second table
DiskNames == FileNames \cup { <<"r", ".", "csv">> }

Codes == {"c1", "c2"}
Errors == {"e1", "e2"}
Queries == {"q"}

\* all sequences over S of length 1..n
SeqsUpTo(S, n) == UNION { [1..k -> S] : k \in 1..n }

----------------------------------------------------------------------------
\* str.lower(), token by token

UpperToLower == ("T" :> "t") @@ ("CSV" :> "csv")

Lower(c) == IF c \in DOMAIN UpperToLower THEN UpperToLower[c] ELSE c

LowerSeq(s) == [i \in 1..Len(s) |-> Lower(s[i])]

\* position of the last "." of a file name, 0 when there is none
LastDot(name) ==
    LET dots == { i \in 1..Len(name) : name[i] = "." }
    IN  IF dots = {} THEN 0 ELSE CHOOSE i \in dots : \A j \in dots : j <= i

\* pathlib.Path(p).stem
Stem(name) ==
    IF LastDot(name) <= 1 THEN name ELSE SubSeq(name, 1, LastDot(name) - 1)

\* path.split('.')[-1]
LastPart(name) == SubSeq(name, LastDot(name) + 1, Len(name))

\* str.endswith(tuple of suffixes) on the lower-cased file name
EndsWithAny(name, exts) ==
    /\ Len(name) >= 2
    /\ name[Len(name) - 1] = "."
    /\ name[Len(name)] \in exts

\* s in t, for strings
IsInfix(s, t) ==
    \E i \in 0..(Len(t) - Len(s)) : SubSeq(t, i + 1, i + Len(s)) = s

ALLOWED_EXTENSIONS ==
    {"csv", "parquet", "json", "geojson", "shp", "shx", "dbf", "prj", "sbn", "sbx", "xml", "cpg"}

LOADABLE_EXTENSIONS == {"csv", "parquet", "shp", "geojson", "json"}

\* LoaderFactory.get_loader: TRUE when a loader exists for the path
get_loader(path) ==
    LET ext == LowerSeq(LastPart(path))
    IN  ext \in { <<"csv">>, <<"parquet">>, <<"shp">>, <<"geojson">>, <<"json">> }

\* f"df_{Path(path).stem.lower().replace('-', '_')}"
var_name_of(path) ==
    LET low == LowerSeq(Stem(path))
    IN  <<"d", "f", "_">> \o [i \in 1..Len(low) |-> IF low[i] = "-" THEN "_" ELSE low[i]]

----------------------------------------------------------------------------
\* Python dict with insertion order: a sequence of entries with distinct keys

DictKeys(d) == { d[i].var : i \in 1..Len(d) }

DictSet(d, entry) ==
    IF entry.var \in DictKeys(d)
    THEN [i \in 1..Len(d) |-> IF d[i].var = entry.var THEN entry ELSE d[i]]
    ELSE Append(d, entry)

\* IngestionManager.load_all_to_context: a file that has no loader, is
\* missing or cannot be parsed is logged and skipped
RECURSIVE load_from(_, _, _, _)
load_from(dsk, file_paths, use_full, acc) ==
    IF file_paths = <<>> THEN acc
    ELSE LET path == Head(file_paths)
             ok == /\ get_loader(path)
                   /\ dsk[path] \notin {NoFile, "bad"}
             df == [var |-> var_name_of(path), path |-> path,
                    bytes |-> dsk[path], full |-> use_full]
         IN  load_from(dsk, Tail(file_paths), use_full,
                       IF ok THEN DictSet(acc, df) ELSE acc)

load_all_to_context(dsk, file_paths, use_full) ==
    load_from(dsk, file_paths, use_full, <<>>)

----------------------------------------------------------------------------
\* SessionManager

\* next(p for p in file_paths if Path(p).stem.lower() in var_name, file_paths[0])
matched_path(file_paths, var) ==
    LET hits == { i \in 1..Len(file_paths) : IsInfix(LowerSeq(Stem(file_paths[i])), var) }
    IN  IF hits = {} THEN file_paths[1]
        ELSE file_paths[CHOOSE i \in hits : \A j \in hits : i <= j]

NewSummary(file_paths, df) ==
    [variable_name |-> df.var,
     path |-> matched_path(file_paths, df.var),
     semantic_tags |-> FALSE,
     analyzed |-> FALSE]

EmptyStore == [snapshots |-> <<>>, current_snapshot_id |-> 0]

\* variant: an upload under an existing id keeps that session's snapshot
\* store and last_workflow_state
create_session_keeps_history(ss, dsk, sid, file_paths) ==
    LET data_context == load_all_to_context(dsk, file_paths, FALSE)
        state == [session_id |-> sid,
                  data_context |-> data_context,
                  summaries |-> [i \in 1..Len(data_context) |->
                                    NewSummary(file_paths, data_context[i])],
                  file_paths |-> file_paths,
                  is_full_data |-> FALSE,
                  state_store |-> IF ss[sid] = None THEN EmptyStore ELSE ss[sid].state_store,
                  last_workflow_state |-> IF ss[sid] = None THEN None
                                          ELSE ss[sid].last_workflow_state,
                  relations_mapped |-> 0]
    IN  [ss EXCEPT ![sid] = state]

create_session(ss, dsk, sid, file_paths) ==
    LET data_context == load_all_to_context(dsk, file_paths, FALSE)
        state == [session_id |-> sid,
                  data_context |-> data_context,
                  summaries |-> [i \in 1..Len(data_context) |->
                                    NewSummary(file_paths, data_context[i])],
                  file_paths |-> file_paths,
                  is_full_data |-> FALSE,
                  state_store |-> EmptyStore,
                  last_workflow_state |-> None,
                  relations_mapped |-> 0]
    IN  [ss EXCEPT ![sid] = state]

get_session(ss, sid) == ss[sid]

\* save_snapshot keeping only the snapshot it creates
save_snapshot_keeps_latest_only(ss, sid, snapshot_id, query, code, layout_data, summary) ==
    IF get_session(ss, sid) = None THEN ss
    ELSE [ss EXCEPT ![sid].state_store =
             [snapshots |-> << [snapshot_id |-> snapshot_id,
                                user_query |-> query,
                                code_snapshot |-> code,
                                layout_data |-> layout_data,
                                summary_text |-> <<summary>>] >>,
              current_snapshot_id |-> snapshot_id]]

\* snapshot_id is the value f"snap_{uuid.uuid4().hex[:8]}" drawn by the caller
\* of this operator; the timestamp is not modelled
save_snapshot(ss, sid, snapshot_id, query, code, layout_data, summary) ==
    IF get_session(ss, sid) = None THEN ss
    ELSE LET new_snapshot == [snapshot_id |-> snapshot_id,
                              user_query |-> query,
                              code_snapshot |-> code,
                              layout_data |-> layout_data,
                              summary_text |-> IF summary = "" THEN <<"analysis", query>>
                                               ELSE <<summary>>]
         IN  [ss EXCEPT ![sid].state_store =
                 [snapshots |-> Append(@.snapshots, new_snapshot),
                  current_snapshot_id |-> snapshot_id]]

\* SessionStateStore.get_snapshot: linear scan, first match
get_snapshot(ss, sid, snapshot_id) ==
    IF get_session(ss, sid) = None THEN None
    ELSE LET snaps == ss[sid].state_store.snapshots
             hits == { i \in 1..Len(snaps) : snaps[i].snapshot_id = snapshot_id }
         IN  IF hits = {} THEN None
             ELSE snaps[CHOOSE i \in hits : \A j \in hits : i <= j]

\* variant: the session stays on the sampled tables
ensure_full_data_context_noop(ss, dsk, sid) == ss

\* variant: the full load also starts a fresh snapshot store
ensure_full_data_context_new_store(ss, dsk, sid) ==
    IF get_session(ss, sid) = None \/ ss[sid].is_full_data THEN ss
    ELSE [ss EXCEPT ![sid].data_context =
                        load_all_to_context(dsk, ss[sid].file_paths, TRUE),
                    ![sid].is_full_data = TRUE,
                    ![sid].state_store = EmptyStore]

ensure_full_data_context(ss, dsk, sid) ==
    IF get_session(ss, sid) = None \/ ss[sid].is_full_data THEN ss
    ELSE [ss EXCEPT ![sid].data_context =
                        load_all_to_context(dsk, ss[sid].file_paths, TRUE),
                    ![sid].is_full_data = TRUE]

\* variant: the delete drops the whole session table
delete_session_all(ss, sid) == [s \in SessionIds |-> None]

delete_session(ss, sid) ==
    IF ss[sid] # None THEN [ss EXCEPT ![sid] = None] ELSE ss

update_session_metadata(ss, sid, metadata) ==
    IF get_session(ss, sid) # None
    THEN [ss EXCEPT ![sid].last_workflow_state = metadata]
    ELSE ss

----------------------------------------------------------------------------
\* POST /data/upload

\* an uploaded file list: every file of one request carries the same bytes
UploadLists == SeqsUpTo(FileNames, MaxFiles)

RECURSIVE SaveAll(_, _, _)
SaveAll(dsk, files, bytes) ==
    IF files = <<>> THEN dsk
    ELSE LET f == Head(files)
         IN  SaveAll(IF EndsWithAny(LowerSeq(f), ALLOWED_EXTENSIONS)
                     THEN [dsk EXCEPT ![f] = bytes] ELSE dsk,
                     Tail(files), bytes)

load_targets(files) ==
    SelectSeq(files, LAMBDA f : EndsWithAny(LowerSeq(f), LOADABLE_EXTENSIONS))

\* the status upload_data answers once the files are saved: the 400 raised
\* inside the try block is an Exception, and the except clause turns it into 500
UploadStatus(targets) == IF targets = <<>> THEN 500 ELSE 200

upload_data(sid, files, bytes, io_error) ==
    /\ pc = "idle"
    /\ nRequests < MaxRequests
    /\ nRequests' = nRequests + 1
    /\ calls' = <<>>
    /\ IF io_error
       THEN \* open() raises on the first file: nothing saved
            /\ resp' = [route |-> "upload", session_id |-> sid, status |-> 500,
                        cause |-> "io"]
            /\ UNCHANGED <<sessions, disk, owned>>
       ELSE LET dsk == SaveAll(disk, files, bytes)
                targets == load_targets(files)
            IN  /\ disk' = dsk
                /\ resp' = [route |-> "upload", session_id |-> sid,
                            status |-> UploadStatus(targets),
                            cause |-> IF targets = <<>> THEN "no_loadable" ELSE "none"]
                /\ IF targets = <<>>
                   THEN UNCHANGED <<sessions, owned>>
                   ELSE /\ sessions' = create_session(sessions, dsk, sid, targets)
                        /\ owned' = [owned EXCEPT ![sid] =
                              [f \in DiskNames |->
                                  IF \E i \in 1..Len(targets) : targets[i] = f
                                  THEN bytes ELSE NoFile]]
    /\ UNCHANGED <<pc, payload, loc, pre, uuidCtr>>
    /\ UNCHANGED unit

----------------------------------------------------------------------------
\* DELETE /session/{id}

clear_session(sid) ==
    /\ pc = "idle"
    /\ sessions' = delete_session(sessions, sid)
    /\ resp' = [route |-> "delete", session_id |-> sid, status |-> 200, cause |-> "none"]
    /\ calls' = <<>>
    /\ nRequests < MaxRequests
    /\ nRequests' = nRequests + 1
    /\ UNCHANGED <<disk, pc, payload, loc, pre, owned, uuidCtr>>
    /\ UNCHANGED unit

----------------------------------------------------------------------------
\* Dashboard schema (core/schemas/dashboard.py), reduced to the fields the
\* workflow reads and writes

EmptyMeta == [empty |-> TRUE]

Component(id, type, insight_config) ==
    [id |-> id, type |-> type, data_payload |-> "none", insight_config |-> insight_config]

\* a plan as the planner returns it when the LLM answers (the plan of
\* test_workflow.create_mock_plan)
LLMPlan ==
    [dashboard_id |-> "test_dash",
     components |-> << Component("chart_1", "chart", "none"),
                       Component("insight_1", "insight", "placeholder") >>,
     metadata |-> EmptyMeta]

\* DashboardPlanner._generate_fallback_plan
FallbackPlan ==
    [dashboard_id |-> "fallback",
     components |-> << Component("map_default", "map", "none"),
                       Component("chart_default", "chart", "none"),
                       Component("insight_default", "insight", "fallback_text") >>,
     metadata |-> EmptyMeta]

\* DashboardPlanner.plan_dashboard: every failure of the LLM call, of the
\* unwrapping or of the validation ends in the fallback plan
plan_dashboard(llm_ok) == IF llm_ok THEN LLMPlan ELSE FallbackPlan

CompIds(plan) == [i \in 1..Len(plan.components) |-> plan.components[i].id]

SeqToSet(s) == { s[i] : i \in 1..Len(s) }

----------------------------------------------------------------------------
\* CodeExecutor.execute_dashboard_logic

\* what running the code can do: raise (with a traceback text) or return a
\* mapping from keys to values
AllKeys == {"chart_1", "insight_1", "map_default", "chart_default", "insight_default"}

\* the code returns a table for every id, or a text for the charts only
TableForAll == [k \in AllKeys |-> "p1"]
ReturnMaps == { TableForAll, [k \in {"chart_1", "chart_default"} |-> "txt"] }

\* textwrap.dedent(code).strip(): the texts that carry a common indentation
\* or surrounding blank lines, and what is left of them
Dedented ==
    ("    syntax_error" :> "syntax_error") @@ ("\nsyntax_error\n" :> "syntax_error") @@
    ("    no_function" :> "no_function") @@ ("\nno_function\n" :> "no_function") @@
    ("    raises" :> "raises") @@ ("\nraises\n" :> "raises") @@
    ("    exits" :> "exits") @@ ("\nexits\n" :> "exits") @@
    ("    c1" :> "c1") @@ ("\nc1\n" :> "c1") @@ ("    " :> "")

_dedent_code(code) == IF code \in DOMAIN Dedented THEN Dedented[code] ELSE code

\* the exception classes a run can end with; the last is a BaseException
\* that is not an Exception (raise SystemExit, sys.exit(), exit())
ExceptionClasses == {"e1", "e2", "SyntaxError", "ValueError"}
BaseExceptionOnly == {"SystemExit"}

\* what exec(clean_code) and the call of get_dashboard_data can do; the text
\* names what the code does: "syntax_error" does not compile, "no_function"
\* and the empty text define no get_dashboard_data, "raises" raises an
\* Exception in the entry function, "exits" raises SystemExit there, any
\* other code raises or returns depending on the data
RunOutcomes(code, maps) ==
    LET clean_code == _dedent_code(code)
        failed(e) == [ok |-> FALSE, all_results |-> <<>>, error |-> e]
    IN  CASE clean_code \in {"", "no_function"} -> { failed("ValueError") }
          [] clean_code = "syntax_error" -> { failed("SyntaxError") }
          [] clean_code = "raises" -> { failed(e) : e \in Errors }
          [] clean_code = "exits" -> { failed(e) : e \in BaseExceptionOnly }
          [] OTHER -> { failed(e) : e \in Errors }
                      \cup { [ok |-> TRUE, all_results |-> m, error |-> "none"] : m \in maps }

\* an exception that leaves a function instead of a return value
Raised(e) == [raised |-> e]

execute_dashboard_logic(code_str, component_ids, run) ==
    IF run.ok
    THEN LET present == DOMAIN run.all_results \cap SeqToSet(component_ids)
         IN  [success |-> TRUE,
              results |-> [c \in present |-> run.all_results[c]],
              global_insight_data |-> [c \in present |-> <<"summary", run.all_results[c]>>],
              error |-> "none",
              code |-> _dedent_code(code_str)]
    ELSE IF run.error \in ExceptionClasses
    THEN \* except Exception: the formatted traceback becomes the error text
         [success |-> FALSE, results |-> <<>>, global_insight_data |-> <<>>,
          error |-> run.error, code |-> _dedent_code(code_str)]
    ELSE Raised(run.error)

\* sys.stdout after the call: restored on the success path and in the except
\* Exception clause, nowhere else
stdout_after(old_stdout, run) ==
    IF run.ok \/ run.error \in ExceptionClasses THEN old_stdout ELSE "capture_buffer"

----------------------------------------------------------------------------
\* AnalysisWorkflow.execute_step and handle_interaction

Payloads ==
    { [session_id |-> s, trigger_type |-> t, query |-> q,
       target_snapshot_id |-> x, force_new |-> f] :
         s \in SessionIds, t \in {"nl", "ui", "backtrack"}, q \in Queries,
         x \in 0..MaxSnapshots, f \in BOOLEAN }

NoPayload == [session_id |-> "sA", trigger_type |-> "nl", query |-> "q",
              target_snapshot_id |-> 0, force_new |-> FALSE]

\* one entry of the call log: the callee, its arguments, what it returned
Call(op, arg, ret) == [op |-> op, arg |-> arg, ret |-> ret]

CallsOf(op) == SelectSeq(calls, LAMBDA c : c.op = op)

Sid == payload.session_id

\* variant: force_new is not consulted
is_edit_mode_ignores_force_new(last_session_state, p) ==
    /\ last_session_state # None
    /\ last_session_state.last_code # ""

\* is_edit_mode = last_session_state and last_session_state.get("last_code")
\*                and not payload.force_new
is_edit_mode(last_session_state, p) ==
    /\ last_session_state # None
    /\ last_session_state.last_code # ""
    /\ ~p.force_new

\* variant: the repaired code is run but not kept
healed_code_keeps_original(current_code, fixed_code, success) == current_code

\* the code the turn ends with after a repair: current_code = fixed_code
\* when the re-execution succeeded
healed_code(current_code, fixed_code, success) ==
    IF success THEN fixed_code ELSE current_code

\* steps 5 of execute_step: attach the results and the insight card
assemble(components, results, insight_card) ==
    [i \in 1..Len(components) |->
        LET c == components[i]
            d == IF c.id \in DOMAIN results
                 THEN IF results[c.id] = "txt"
                      THEN [c EXCEPT !.data_payload = "content_txt",
                                     !.insight_config =
                                         IF c.type = "insight" /\ @ = "none"
                                         THEN "summary_txt" ELSE @]
                      ELSE [c EXCEPT !.data_payload = results[c.id]]
                 ELSE c
        IN  IF c.type = "insight" THEN [d EXCEPT !.insight_config = insight_card] ELSE d]

\* step 6 of execute_step: last_layout is dumped before metadata is replaced
with_metadata(plan, current_code, exec_result) ==
    [plan EXCEPT !.metadata = [last_code |-> current_code,
                               last_layout |-> plan,
                               execution_summary |-> exec_result.global_insight_data]]

NoResult == [success |-> FALSE, results |-> <<>>, global_insight_data |-> <<>>,
             error |-> "none", code |-> ""]

NoPlan == [dashboard_id |-> "none", components |-> <<>>, metadata |-> EmptyMeta]

\* POST /chat/interact arrives: 404 when the session does not exist
handle_interaction(p) ==
    /\ pc = "idle"
    /\ nRequests < MaxRequests
    /\ nRequests' = nRequests + 1
    /\ p.target_snapshot_id <= uuidCtr
    /\ p.target_snapshot_id # 0 => p.trigger_type = "backtrack"
    /\ payload' = p
    /\ calls' = <<>>
    /\ IF get_session(sessions, p.session_id) = None
       THEN /\ resp' = [route |-> "interact", session_id |-> p.session_id,
                        status |-> 404, cause |-> "no_session"]
            /\ UNCHANGED <<pc, pre>>
       ELSE /\ pc' = "ensure_full"
            /\ pre' = sessions[p.session_id]
            /\ resp' = [route |-> "interact", session_id |-> p.session_id,
                        status |-> 0, cause |-> "pending"]
    /\ UNCHANGED <<sessions, disk, loc, owned, uuidCtr>>
    /\ UNCHANGED unit

\* chat.py: ensure_full_data_context, then get_session and the call of execute_step
EnsureFull ==
    /\ pc = "ensure_full"
    /\ sessions' = ensure_full_data_context(sessions, disk, Sid)
    /\ calls' = Append(calls, Call("ensure_full_data_context", <<Sid>>, "none"))
    /\ loc' = [i |-> 1,
               last_session_state |-> sessions'[Sid].last_workflow_state,
               data_context |-> sessions'[Sid].data_context,
               relation_hint |-> FALSE,
               current_code |-> "",
               dashboard_plan |-> NoPlan,
               exec_result |-> NoResult,
               fixed_code |-> "",
               dashboard |-> None,
               status |-> 0]
    /\ pc' = "enrich"
    /\ UNCHANGED <<disk, payload, resp, pre, owned, uuidCtr, nRequests>>
    /\ UNCHANGED unit

\* SemanticAnalyzer.analyze reads the file again before its try block: a
\* file no loader can read makes it raise; inside the try block an LLM
\* failure gives {"error": ...}, a success gives the LLM's JSON, which holds
\* a "semantic_tags" key only when the LLM chose to add one
AnalyzeOutcomes(dsk, path) ==
    IF ~get_loader(path) \/ dsk[path] \in {NoFile, "bad"}
    THEN {"raise"}
    ELSE {"error", "tagged", "untagged"}

\* one iteration of the enrichment loop of execute_step
Enrich(outs) ==
    /\ pc = "enrich"
    /\ loc.i <= Len(sessions[Sid].summaries)
    /\ LET summary == sessions[Sid].summaries[loc.i]
       IN  IF summary.semantic_tags
           THEN /\ loc' = [loc EXCEPT !.i = @ + 1]
                /\ UNCHANGED <<sessions, calls, pc>>
           ELSE \E out \in AnalyzeOutcomes(disk, summary.path) \cap (outs \cup {"raise"}) :
                  /\ calls' = Append(calls, Call("analyze", <<summary.path>>, out))
                  /\ IF out = "raise"
                     THEN /\ pc' = "raise"
                          /\ UNCHANGED <<sessions, loc>>
                     ELSE /\ pc' = pc
                          /\ loc' = [loc EXCEPT !.i = @ + 1]
                          /\ sessions' =
                               IF out = "error" THEN sessions
                               ELSE [sessions EXCEPT
                                       ![Sid].summaries[loc.i].semantic_tags = (out = "tagged"),
                                       ![Sid].summaries[loc.i].analyzed = TRUE]
    /\ UNCHANGED <<disk, payload, resp, pre, owned, uuidCtr, nRequests>>
    /\ UNCHANGED unit

\* step 0 of execute_step: relation discovery
Relations ==
    /\ pc = "enrich"
    /\ loc.i > Len(sessions[Sid].summaries)
    /\ IF loc.last_session_state = None /\ Len(sessions[Sid].summaries) > 1
       THEN \E found \in BOOLEAN :
              /\ calls' = Append(calls, Call("map_relations", <<>>, found))
              /\ loc' = [loc EXCEPT !.relation_hint = found]
              /\ sessions' = [sessions EXCEPT ![Sid].relations_mapped = @ + 1]
       ELSE UNCHANGED <<calls, loc, sessions>>
    /\ pc' = "mode"
    /\ UNCHANGED <<disk, payload, resp, pre, owned, uuidCtr, nRequests>>
    /\ UNCHANGED unit

\* branch A: VizEditor.edit_dashboard_code on the prior code; an LLM failure
\* gives the original code back
Edit(codes) ==
    /\ pc = "mode"
    /\ is_edit_mode(loc.last_session_state, payload)
    /\ \E code \in codes \cup {loc.last_session_state.last_code} :
          /\ loc' = [loc EXCEPT !.dashboard_plan = loc.last_session_state.last_layout,
                                !.current_code = code]
          /\ calls' = Append(calls, Call("edit_dashboard_code",
                                         <<loc.last_session_state.last_code>>, code))
    /\ pc' = "execute"
    /\ UNCHANGED <<sessions, disk, payload, resp, pre, owned, uuidCtr, nRequests>>
    /\ UNCHANGED unit

\* branch B, step 1: DashboardPlanner.plan_dashboard
Plan(llm_answers) ==
    /\ pc = "mode"
    /\ ~is_edit_mode(loc.last_session_state, payload)
    /\ \E llm_ok \in llm_answers :
          /\ loc' = [loc EXCEPT !.dashboard_plan = plan_dashboard(llm_ok)]
          /\ calls' = Append(calls, Call("plan_dashboard", <<payload.query>>,
                                         plan_dashboard(llm_ok).dashboard_id))
    /\ pc' = "generate"
    /\ UNCHANGED <<sessions, disk, payload, resp, pre, owned, uuidCtr, nRequests>>
    /\ UNCHANGED unit

\* branch B, step 3: CodeGenerator.generate_dashboard_code; llm.chat is not
\* guarded, its exception leaves execute_step
Generate(codes) ==
    /\ pc = "generate"
    /\ \/ /\ pc' = "raise"
          /\ calls' = Append(calls, Call("generate_dashboard_code", <<payload.query>>, "raise"))
          /\ UNCHANGED loc
       \/ \E code \in codes :
            /\ loc' = [loc EXCEPT !.current_code = code]
            /\ calls' = Append(calls, Call("generate_dashboard_code", <<payload.query>>, code))
            /\ pc' = "execute"
    /\ UNCHANGED <<sessions, disk, payload, resp, pre, owned, uuidCtr, nRequests>>
    /\ UNCHANGED unit

\* step 2 of execute_step: the first execution
Execute(maps) ==
    /\ pc = "execute"
    /\ \E run \in RunOutcomes(loc.current_code, maps) :
          LET r == execute_dashboard_logic(loc.current_code, CompIds(loc.dashboard_plan), run)
          IN  /\ loc' = [loc EXCEPT !.exec_result = r]
              /\ pc' = IF r.success THEN "assemble" ELSE "fix"
              /\ calls' = Append(calls, Call("execute_dashboard_logic",
                                             <<loc.current_code, loc.data_context>>, r))
    /\ UNCHANGED <<sessions, disk, payload, resp, pre, owned, uuidCtr, nRequests>>
    /\ UNCHANGED unit

\* step 3 of execute_step: CodeGenerator.fix_code; llm.chat is not guarded
FixCode(codes) ==
    /\ pc = "fix"
    /\ \/ /\ pc' = "raise"
          /\ calls' = Append(calls, Call("fix_code",
                                         <<loc.current_code, loc.exec_result.error>>, "raise"))
          /\ UNCHANGED loc
       \/ \E code \in codes :
            /\ loc' = [loc EXCEPT !.fixed_code = code]
            /\ calls' = Append(calls, Call("fix_code",
                                           <<loc.current_code, loc.exec_result.error>>, code))
            /\ pc' = "reexecute"
    /\ UNCHANGED <<sessions, disk, payload, resp, pre, owned, uuidCtr, nRequests>>
    /\ UNCHANGED unit

\* step 3 of execute_step: the one re-execution
ReExecute(maps) ==
    /\ pc = "reexecute"
    /\ \E run \in RunOutcomes(loc.fixed_code, maps) :
          LET r == execute_dashboard_logic(loc.fixed_code, CompIds(loc.dashboard_plan), run)
          IN  /\ loc' = [loc EXCEPT !.exec_result = r,
                                    !.current_code =
                                        healed_code(loc.current_code, loc.fixed_code, r.success)]
              /\ pc' = IF r.success THEN "assemble" ELSE "raise"
              /\ calls' = Append(calls, Call("execute_dashboard_logic",
                                             <<loc.fixed_code, loc.data_context>>, r))
    /\ UNCHANGED <<sessions, disk, payload, resp, pre, owned, uuidCtr, nRequests>>
    /\ UNCHANGED unit

\* steps 4 to 6 of execute_step: insight (LLM card or the fixed fallback
\* card), assembly, metadata, return
Assemble(cards) ==
    /\ pc = "assemble"
    /\ \E card \in cards :
          LET plan == [loc.dashboard_plan EXCEPT
                         !.components = assemble(@, loc.exec_result.results, card)]
          IN  /\ loc' = [loc EXCEPT !.dashboard_plan = plan,
                                     !.dashboard = with_metadata(plan, loc.current_code,
                                                                 loc.exec_result)]
              /\ calls' = Append(calls, Call("generate_insights", <<payload.query>>, card))
    /\ pc' = "returned"
    /\ UNCHANGED <<sessions, disk, payload, resp, pre, owned, uuidCtr, nRequests>>
    /\ UNCHANGED unit

\* chat.py step 5: update_session_metadata(session_id, dashboard_json.metadata)
UpdateMetadata ==
    /\ pc = "returned"
    /\ sessions' = update_session_metadata(sessions, Sid, loc.dashboard.metadata)
    /\ calls' = Append(calls, Call("update_session_metadata", <<Sid>>, "none"))
    /\ pc' = "append_history"
    /\ UNCHANGED <<disk, payload, loc, resp, pre, owned, uuidCtr, nRequests>>
    /\ UNCHANGED unit

\* chat.py step 6: SessionManager has no append_history, the attribute
\* lookup raises AttributeError, which the except clause maps to 500
AppendHistory ==
    /\ pc = "append_history"
    /\ calls' = Append(calls, Call("append_history", <<Sid>>, "raise"))
    /\ loc' = [loc EXCEPT !.status = 500]
    /\ pc' = "respond"
    /\ UNCHANGED <<sessions, disk, payload, resp, pre, owned, uuidCtr, nRequests>>
    /\ UNCHANGED unit

\* an exception left execute_step: except Exception -> HTTPException(500)
Raise ==
    /\ pc = "raise"
    /\ loc' = [loc EXCEPT !.status = 500]
    /\ pc' = "respond"
    /\ UNCHANGED <<sessions, disk, payload, calls, resp, pre, owned, uuidCtr, nRequests>>
    /\ UNCHANGED unit

\* the response leaves the handler
Respond ==
    /\ pc = "respond"
    /\ resp' = [route |-> "interact", session_id |-> Sid, status |-> loc.status,
                cause |-> "workflow"]
    /\ pc' = "idle"
    /\ loc' = None
    /\ pre' = None
    /\ calls' = <<>>
    /\ payload' = NoPayload
    /\ UNCHANGED <<sessions, disk, owned, uuidCtr, nRequests>>
    /\ UNCHANGED unit

----------------------------------------------------------------------------
\* SessionManager.save_snapshot called by a client of the service

SaveSnapshot(sid, code, layout, summary) ==
    /\ pc = "idle"
    /\ uuidCtr < MaxSnapshots
    /\ uuidCtr' = uuidCtr + 1
    /\ sessions' = save_snapshot(sessions, sid, uuidCtr + 1, "q", code, layout, summary)
    /\ resp' = [route |-> "save_snapshot", session_id |-> sid, status |-> 200,
                cause |-> "none"]
    /\ calls' = <<>>
    /\ nRequests < MaxRequests
    /\ nRequests' = nRequests + 1
    /\ UNCHANGED <<disk, pc, payload, loc, pre, owned>>
    /\ UNCHANGED unit

----------------------------------------------------------------------------

ServiceInit ==
    /\ sessions = [s \in SessionIds |-> None]
    /\ disk = [f \in DiskNames |-> NoFile]
    /\ pc = "idle"
    /\ payload = NoPayload
    /\ loc = None
    /\ calls = <<>>
    /\ resp = [route |-> "none", session_id |-> "sA", status |-> 0, cause |-> "none"]
    /\ pre = None
    /\ owned = [s \in SessionIds |-> [f \in DiskNames |-> NoFile]]
    /\ uuidCtr = 0
    /\ nRequests = 0

Init ==
    /\ ServiceInit
    /\ unit = None

\* the insight card: the LLM's, or InsightExtractor's fixed fallback card
Cards == {"card_llm", "card_fallback"}

\* one client, one session: every trigger, every answer of the planner, the
\* generator, the editor and the repair, a failing or a succeeding execution
Next ==
    \/ \E files \in UploadLists, bytes \in Bytes, io \in BOOLEAN :
          upload_data("sA", files, bytes, io)
    \/ clear_session("sA")
    \/ \E summary \in {"", "s"} :
          SaveSnapshot("sA", "c1", with_metadata(LLMPlan, "c1", NoResult), summary)
    \/ \E p \in Payloads : p.session_id = "sA" /\ handle_interaction(p)
    \/ EnsureFull
    \/ Enrich({"error", "tagged", "untagged"})
    \/ Relations
    \/ Edit(Codes)
    \/ Plan(BOOLEAN)
    \/ Generate(Codes)
    \/ Execute({TableForAll})
    \/ FixCode(Codes)
    \/ ReExecute({TableForAll})
    \/ Assemble({"card_llm"})
    \/ UpdateMetadata
    \/ AppendHistory
    \/ Raise
    \/ Respond

Spec == Init /\ [][Next]_vars

\* two clients, two sessions: natural-language turns, one answer of the
\* generator, every return value of the executed code, every insight card
NextSessions ==
    \/ \E sid \in SessionIds, files \in UploadLists, bytes \in Bytes, io \in BOOLEAN :
          upload_data(sid, files, bytes, io)
    \/ \E sid \in SessionIds : clear_session(sid)
    \/ \E sid \in SessionIds :
          SaveSnapshot(sid, "c1", with_metadata(LLMPlan, "c1", NoResult), "")
    \/ \E p \in Payloads :
          /\ p.trigger_type = "nl" /\ ~p.force_new
          /\ handle_interaction(p)
    \/ EnsureFull
    \/ Enrich({"tagged"})
    \/ Relations
    \/ Edit({"c1"})
    \/ Plan({TRUE})
    \/ Generate({"c1"})
    \/ Execute(ReturnMaps)
    \/ FixCode({"c1"})
    \/ ReExecute(ReturnMaps)
    \/ Assemble(Cards)
    \/ UpdateMetadata
    \/ AppendHistory
    \/ Raise
    \/ Respond

SpecSessions == Init /\ [][NextSessions]_vars

\* one client, one session of two tables: natural-language turns with and
\* without force_new, one answer of each LLM call or its failure
NextRelations ==
    \/ upload_data("sA", << <<"t", ".", "csv">>, <<"r", ".", "csv">> >>, "b1", FALSE)
    \/ \E p \in Payloads :
          /\ p.session_id = "sA" /\ p.trigger_type = "nl"
          /\ handle_interaction(p)
    \/ EnsureFull
    \/ Enrich({"tagged"})
    \/ Relations
    \/ Edit({"c1"})
    \/ Plan({TRUE})
    \/ Generate({"c1"})
    \/ Execute({TableForAll})
    \/ FixCode({"c1"})
    \/ ReExecute({TableForAll})
    \/ Assemble({"card_llm"})
    \/ UpdateMetadata
    \/ AppendHistory
    \/ Raise
    \/ Respond

SpecRelations == Init /\ [][NextRelations]_vars

----------------------------------------------------------------------------
\* CodeExecutor on its own: a sequence of execute_dashboard_logic calls on
\* one executor object, as test_executor.py makes them

MaxRuns == 3

CodeTexts == DOMAIN Dedented \cup {"syntax_error", "no_function", "raises", "exits", "c1", ""}

ComponentIdLists == { <<>>, <<"chart_1">>, <<"chart_1", "insight_1">> }

ExecutorInit ==
    /\ ServiceInit
    /\ unit = [stdout |-> "console", n |-> 0, code_str |-> "", ret |-> None]

\* one call: the executor is synchronous, nothing interleaves with it
ExecuteLogic ==
    /\ unit.n < MaxRuns
    /\ \E code_str \in CodeTexts, component_ids \in ComponentIdLists :
         \E run \in RunOutcomes(code_str, ReturnMaps) :
            unit' = [stdout |-> stdout_after(unit.stdout, run),
                     n |-> unit.n + 1,
                     code_str |-> code_str,
                     ret |-> execute_dashboard_logic(code_str, component_ids, run)]
    /\ UNCHANGED service

ExecutorNext == ExecuteLogic

SpecExecutor == ExecutorInit /\ [][ExecutorNext]_vars

\* the call made last was handed code that fails: it does not compile, it
\* defines no get_dashboard_data, or its entry function raises
FailingCode ==
    /\ unit.n > 0
    /\ _dedent_code(unit.code_str) \in {"syntax_error", "no_function", "raises", "exits"}

\* C12: a call on failing code returns (it does not raise) a result with
\* success false, an error text, no component results, and the code text it
\* was handed.
C12_NeverRaises ==
    FailingCode =>
        /\ "raised" \notin DOMAIN unit.ret
        /\ ~unit.ret.success
        /\ unit.ret.error # "none"
        /\ unit.ret.results = <<>>
        /\ unit.ret.code = unit.code_str

\* C13: between calls, whatever the calls before did, sys.stdout is the
\* stream that was installed before the first call.
C13_StdoutRestored ==
    unit.stdout = "console"

----------------------------------------------------------------------------
\* CodeExecutor._make_serializable on its own.  A Python value is a tagged
\* record: a NumPy float, a native float, a NumPy integer, a text, a list, a
\* dict (its values in insertion order), a NumPy array, or the pydantic
\* object ComponentResult.  A float is its token: "1.5", "nan", "inf".

NpFloat(v) == [t |-> "np.floating", v |-> v]
PyFloat(v) == [t |-> "float", v |-> v]
NpInt(v) == [t |-> "np.integer", v |-> v]
PyInt(v) == [t |-> "int", v |-> v]
PyList(items) == [t |-> "list", items |-> items]
PyDict(items) == [t |-> "dict", items |-> items]
NdArray(items) == [t |-> "np.ndarray", items |-> items]
ComponentResult(data, summary_stats) ==
    [t |-> "ComponentResult", data |-> data, summary_stats |-> summary_stats]

\* np.isnan(obj) or np.isinf(obj)
NotFinite(v) == v \in {"nan", "inf"}

\* ndarray.tolist(): the elements become native Python scalars
tolist(arr) ==
    PyList([i \in 1..Len(arr.items) |->
               IF arr.items[i].t = "np.floating" THEN PyFloat(arr.items[i].v)
               ELSE IF arr.items[i].t = "np.integer" THEN PyInt(arr.items[i].v)
               ELSE arr.items[i]])

RECURSIVE _make_serializable(_)
_make_serializable(obj) ==
    CASE obj.t = "np.integer" -> PyInt(obj.v)
      [] obj.t = "np.floating" -> IF NotFinite(obj.v) THEN None ELSE PyFloat(obj.v)
      [] obj.t = "np.ndarray" -> _make_serializable(tolist(obj))
      [] obj.t = "dict" ->
            PyDict([i \in 1..Len(obj.items) |-> _make_serializable(obj.items[i])])
      [] obj.t = "list" ->
            PyList([i \in 1..Len(obj.items) |-> _make_serializable(obj.items[i])])
      [] OTHER -> obj

\* the floats a computation on a table yields: NumPy scalars (Series.max())
\* and native floats (DataFrame.to_dict(), float(...))
Scalars ==
    { NpFloat(v) : v \in {"1.5", "nan", "inf"} } \cup { PyFloat(v) : v \in {"1.5", "nan", "inf"} }
    \cup { NpInt("7") }

Containers ==
    { PyList(<<a, b>>) : a, b \in Scalars } \cup { PyDict(<<a>>) : a \in Scalars }
    \cup { NdArray(<<a>>) : a \in { NpFloat(v) : v \in {"1.5", "nan", "inf"} } }

\* final_results and insight_payload as execute_dashboard_logic builds them
Serializables ==
    Scalars \cup Containers
    \cup { PyDict(<<c>>) : c \in Containers }
    \cup { PyDict(<<ComponentResult(d, PyDict(<<st>>))>>) :
              d \in Scalars, st \in { NpFloat("nan"), PyFloat("1.5") } }

SerializeInit ==
    /\ ServiceInit
    /\ \E obj \in Serializables : unit = [obj |-> obj, out |-> None, done |-> FALSE]

Serialize ==
    /\ ~unit.done
    /\ unit' = [unit EXCEPT !.out = _make_serializable(unit.obj), !.done = TRUE]
    /\ UNCHANGED service

SerializeNext == Serialize

SpecSerialize == SerializeInit /\ [][SerializeNext]_vars

\* a NaN or an Infinity at some position of a value
RECURSIVE HoldsNotFinite(_)
HoldsNotFinite(obj) ==
    IF obj = None THEN FALSE
    ELSE CASE obj.t \in {"np.floating", "float"} -> NotFinite(obj.v)
           [] obj.t \in {"list", "dict", "np.ndarray"} ->
                 \E i \in 1..Len(obj.items) : HoldsNotFinite(obj.items[i])
           [] obj.t = "ComponentResult" ->
                 HoldsNotFinite(obj.data) \/ HoldsNotFinite(obj.summary_stats)
           [] OTHER -> FALSE

\* C14: whatever value the executor serialises, the output holds no NaN and
\* no Infinity at any position.
C14_NoNaN ==
    unit.done => ~HoldsNotFinite(unit.out)

----------------------------------------------------------------------------
\* DashboardPlanner.plan_dashboard and LayoutTemplates.apply_layout on their
\* own.  The answer of llm.query_json is a record: kind "raise" (the call
\* raised), "list" (JSON that is no object) or "dict"; a dict answer is the
\* plan itself or the plan under the wrapper key 'plan', with or without the
\* root keys dashboard_id and title, and holds raw components.  A raw
\* component has an id ("" when absent), a type and a layout zone ("none"
\* when it has no layout).  Titles are left out: they bear on no id and no
\* coordinate.  y and h count half rows, so that 4.5 rows is 9.

MaxComponents == 2

GridColumns == 12

LayoutZone == {"center_main", "right_sidebar", "bottom_insight", "left_history"}

ComponentType == {"map", "chart", "kpi", "insight", "table"}

\* LayoutConfig(zone=...), the defaults x=0, y=0, w=12, h=6
LayoutConfig(zone, x, y, w, h) == [zone |-> zone, x |-> x, y |-> y, w |-> w, h |-> h]

DefaultLayout(zone) == LayoutConfig(zone, 0, 0, 12, 12)

GOLDEN_SPATIO_TEMPORAL ==
    [center_main |-> << LayoutConfig("center_main", 0, 0, 8, 18) >>,
     right_sidebar |-> << LayoutConfig("right_sidebar", 8, 0, 4, 9),
                          LayoutConfig("right_sidebar", 8, 9, 4, 9) >>,
     bottom_insight |-> << LayoutConfig("bottom_insight", 0, 18, 12, 6) >>]

DashboardComponent(id, type, layout, map_config, insight_config) ==
    [id |-> id, type |-> type, layout |-> layout,
     map_config |-> map_config, insight_config |-> insight_config]

\* the loop of apply_layout from component i on, counters being the slots
\* used so far in each zone
RECURSIVE apply_layout_from(_, _, _)
apply_layout_from(components, i, counters) ==
    IF i > Len(components) THEN components
    ELSE LET zone == components[i].layout.zone
             slots == GOLDEN_SPATIO_TEMPORAL
         IN  IF zone \in DOMAIN slots /\ counters[zone] < Len(slots[zone])
             THEN apply_layout_from(
                      [components EXCEPT ![i].layout = slots[zone][counters[zone] + 1]],
                      i + 1, [counters EXCEPT ![zone] = @ + 1])
             ELSE apply_layout_from(components, i + 1, counters)

apply_layout(components) ==
    apply_layout_from(components, 1, [zone \in LayoutZone |-> 0])

\* the fallback plan without the map layers
_generate_fallback_plan_no_map_config ==
    [dashboard_id |-> "fallback",
     components |-> apply_layout(
        << DashboardComponent("map_default", "map", DefaultLayout("center_main"), <<>>, "none"),
           DashboardComponent("chart_default", "chart", DefaultLayout("right_sidebar"), <<>>, "none"),
           DashboardComponent("insight_default", "insight", DefaultLayout("bottom_insight"),
                              <<>>, "fallback_text") >>)]

_generate_fallback_plan ==
    [dashboard_id |-> "fallback",
     components |-> apply_layout(
        << DashboardComponent("map_default", "map", DefaultLayout("center_main"),
                              << "scatter_layer_fallback" >>, "none"),
           DashboardComponent("chart_default", "chart", DefaultLayout("right_sidebar"), <<>>, "none"),
           DashboardComponent("insight_default", "insight", DefaultLayout("bottom_insight"),
                              <<>>, "fallback_text") >>)]

\* comp_{i} for the 0-based index i of enumerate
PlaceholderIds == << "comp_0", "comp_1", "comp_2", "comp_3" >>

placeholder_id(i) == PlaceholderIds[i + 1]

RawComponent(id, type, zone) == [id |-> id, type |-> type, zone |-> zone]

RawComponents ==
    { RawComponent(id, type, zone) :
        id \in {"", "a", "comp_1"},
        type \in {"map", "chart", "insight", "bogus"},
        zone \in LayoutZone \cup {"none"} }

Answers ==
    { [kind |-> k, wrapper |-> "none", root_keys |-> FALSE, components |-> <<>>] :
        k \in {"raise", "list"} }
    \cup { [kind |-> "dict", wrapper |-> w, root_keys |-> r, components |-> cs] :
             w \in {"none", "plan"}, r \in BOOLEAN, cs \in SeqsUpTo(RawComponents, MaxComponents) \cup {<<>>} }

\* _unwrap_llm_json: a dict that lacks a required root key is replaced by
\* the dict under a wrapper key, when there is one
_unwrap_llm_json(data) ==
    IF data.wrapper = "none" THEN data
    ELSE [data EXCEPT !.wrapper = "none"]

\* the post-processing pass over clean_plan["components"]
repaired(components) ==
    [i \in 1..Len(components) |->
        [id |-> IF components[i].id = "" THEN placeholder_id(i - 1) ELSE components[i].id,
         type |-> components[i].type,
         zone |-> components[i].zone,
         insight_config |-> IF components[i].type = "insight" THEN "placeholder" ELSE "none"]]

\* DashboardSchema(**clean_plan) accepts the plan
validates(clean_plan, components) ==
    /\ clean_plan.root_keys
    /\ \A i \in 1..Len(components) :
          /\ components[i].type \in ComponentType
          /\ components[i].zone \in LayoutZone

plan_dashboard_of(answer) ==
    IF answer.kind # "dict" THEN _generate_fallback_plan
    ELSE LET clean_plan == _unwrap_llm_json(answer)
             components == repaired(clean_plan.components)
         IN  IF ~validates(clean_plan, components) THEN _generate_fallback_plan
             ELSE [dashboard_id |-> "d1",
                   components |-> apply_layout(
                      [i \in 1..Len(components) |->
                          DashboardComponent(components[i].id, components[i].type,
                                             DefaultLayout(components[i].zone), <<>>,
                                             components[i].insight_config)])]

PlannerInit ==
    /\ ServiceInit
    /\ \E answer \in Answers : unit = [answer |-> answer, plan |-> None, done |-> FALSE]

PlanDashboard ==
    /\ ~unit.done
    /\ unit' = [unit EXCEPT !.plan = plan_dashboard_of(unit.answer), !.done = TRUE]
    /\ UNCHANGED service

PlannerNext == PlanDashboard

SpecPlanner == PlannerInit /\ [][PlannerNext]_vars

\* the planner's own path failed: the call raised, the answer could not be
\* unwrapped, or the schema rejected it
PlanningFailed(answer) ==
    \/ answer.kind # "dict"
    \/ ~validates(_unwrap_llm_json(answer), repaired(_unwrap_llm_json(answer).components))

\* C16: the components of every returned plan have pairwise distinct ids.
C16_DistinctIds ==
    unit.done =>
        \A i, j \in DOMAIN unit.plan.components :
            i # j => unit.plan.components[i].id # unit.plan.components[j].id

Overlap(a, b) ==
    /\ a.x < b.x + b.w
    /\ b.x < a.x + a.w
    /\ a.y < b.y + b.h
    /\ b.y < a.y + a.h

InsideGrid(a) == a.x >= 0 /\ a.x + a.w <= GridColumns

\* C18: after apply_layout no two components' rectangles overlap and every
\* rectangle lies inside the 12-column grid.
C18_NoOverlap ==
    unit.done =>
        /\ \A i, j \in DOMAIN unit.plan.components :
              i # j => ~Overlap(unit.plan.components[i].layout, unit.plan.components[j].layout)
        /\ \A i \in DOMAIN unit.plan.components : InsideGrid(unit.plan.components[i].layout)

----------------------------------------------------------------------------
\* The variable name of a file, as IngestionManager.load_all_to_context and
\* SemanticAnalyzer.analyze derive it, on its own.  A file name is a stem of
\* tokens (letters, a digit, a hyphen, a space) followed by "." and an
\* extension with a loader.

MaxStem == 2

MaxDerivations == 2

StemTokens == {"t", "T", "1", "-", " "}

\* stems begin with a letter
NamedPaths ==
    { stem \o <<".", ext>> :
        stem \in { st \in SeqsUpTo(StemTokens, MaxStem) : st[1] \in {"t", "T"} },
        ext \in {"csv", "json"} }

\* semantic_analyzer.py: f"df_{Path(file_path).stem.lower().replace('-', '_')}"
analyzer_variable_name(file_path) ==
    LET stem == LowerSeq(Stem(file_path))
    IN  <<"d", "f", "_">> \o [i \in 1..Len(stem) |-> IF stem[i] = "-" THEN "_" ELSE stem[i]]

\* str.isidentifier() over the tokens of the model: letters, digits and "_",
\* the first token no digit
IsIdentifier(name) ==
    /\ name # <<>>
    /\ name[1] \in {"d", "f", "t", "T", "_"}
    /\ \A i \in 1..Len(name) : name[i] \in {"d", "f", "t", "T", "_", "1"}

NamingInit ==
    /\ ServiceInit
    /\ \E path \in NamedPaths : unit = [path |-> path, names |-> <<>>]

\* load_all_to_context derives the name of the path
LoadName ==
    /\ Len(unit.names) < MaxDerivations
    /\ unit' = [unit EXCEPT !.names = Append(@, [by |-> "load_all_to_context",
                                           name |-> var_name_of(unit.path)])]
    /\ UNCHANGED service

\* analyze derives the name of the path
AnalyzeName ==
    /\ Len(unit.names) < MaxDerivations
    /\ unit' = [unit EXCEPT !.names = Append(@, [by |-> "analyze",
                                           name |-> analyzer_variable_name(unit.path)])]
    /\ UNCHANGED service

NamingNext == LoadName \/ AnalyzeName

SpecNaming == NamingInit /\ [][NamingNext]_vars

\* C19: the name derived from a path is a legal identifier, and every
\* derivation from the same path gives the same name.
C19_LegalStableName ==
    \A i \in DOMAIN unit.names :
        /\ IsIdentifier(unit.names[i].name)
        /\ unit.names[i].name = unit.names[1].name

----------------------------------------------------------------------------
\* SessionManager.create_session on an upload of several files, on its own

MaxUpload == 2

IngestPaths ==
    { <<"t", ".", "csv">>, <<"T", ".", "csv">>, <<"t", ".", "json">>,
      <<"t", "-", "1", ".", "csv">>, <<"t", "_", "1", ".", "csv">>, <<"r", ".", "csv">> }

\* the files of one upload, each with the bytes saved for it; the paths of
\* one upload are distinct
Uploads ==
    { u \in SeqsUpTo([path : IngestPaths, bytes : {"b1", "bad"}], MaxUpload) :
        \A i, j \in DOMAIN u : i # j => u[i].path # u[j].path }

UploadPaths(u) == [i \in DOMAIN u |-> u[i].path]

UploadDisk(u) ==
    [p \in IngestPaths |->
        IF \E i \in DOMAIN u : u[i].path = p
        THEN u[CHOOSE i \in DOMAIN u : u[i].path = p].bytes
        ELSE NoFile]

IngestInit ==
    /\ ServiceInit
    /\ \E u \in Uploads : unit = [upload |-> u, session |-> None]

CreateSession ==
    /\ unit.session = None
    /\ unit' = [unit EXCEPT !.session =
                  create_session(sessions, UploadDisk(unit.upload), "sA",
                                 UploadPaths(unit.upload))["sA"]]
    /\ UNCHANGED service

IngestNext == CreateSession

SpecIngest == IngestInit /\ [][IngestNext]_vars

\* the files of the upload that load
Loaded(u) == { i \in DOMAIN u : get_loader(u[i].path) /\ u[i].bytes # "bad" }

\* C20: each file of an upload that loads has its own data context entry and
\* its own summary, and no two of them share a variable_name.
C20_UniqueVariableName ==
    unit.session # None =>
        /\ Len(unit.session.data_context) = Cardinality(Loaded(unit.upload))
        /\ Len(unit.session.summaries) = Cardinality(Loaded(unit.upload))
        /\ \A i, j \in Loaded(unit.upload) :
              i # j => var_name_of(unit.upload[i].path) # var_name_of(unit.upload[j].path)

\* the loaded files of the upload derive pairwise distinct variable names
DistinctNames(u) ==
    \A i, j \in Loaded(u) : i # j => var_name_of(u[i].path) # var_name_of(u[j].path)

\* the file a variable of the data context was loaded from
OriginOf(session, variable_name) ==
    session.data_context[CHOOSE k \in DOMAIN session.data_context :
                            session.data_context[k].var = variable_name].path

\* C23: the path of every summary is the path of the file its variable was
\* loaded from (stated for uploads whose files derive distinct names).
C23_SummaryPathIsOrigin ==
    (unit.session # None /\ DistinctNames(unit.upload)) =>
        \A k \in DOMAIN unit.session.summaries :
            unit.session.summaries[k].path =
                OriginOf(unit.session, unit.session.summaries[k].variable_name)

----------------------------------------------------------------------------
\* Several POST /interact requests in flight in the one event loop of the
\* process.  Each request is a coroutine running handle_interaction; the
\* loop switches to another coroutine only where the running one is
\* suspended.  The metadata a turn writes is the number of the turn, 0 is
\* None, and -1 marks a turn that has read nothing yet.

MaxTurns == 3

Turns == 1..MaxTurns

\* a coroutine inside execute_step is suspended at every step
yields_in_execute_step(point) == TRUE

\* the points of handle_interaction where the coroutine is suspended: the
\* handler and execute_step hold no await that gives up the loop
yields(point) == point # "execute_step"

\* the loop may run a step of coroutine t
MayRun(t) == \A u \in Turns \ {t} : yields(unit.task[u])

TurnsInit ==
    /\ ServiceInit
    /\ unit = [task |-> [t \in Turns |-> "new"],
               sid |-> [t \in Turns |-> "sA"],
               seen |-> [t \in Turns |-> -1],
               waiting |-> [t \in Turns |-> {}],
               last_workflow_state |-> [s \in SessionIds |-> 0]]

\* a request arrives and its body is parsed
Receive(t, sid) ==
    /\ unit.task[t] = "new"
    /\ unit' = [unit EXCEPT !.task[t] = "received", !.sid[t] = sid]
    /\ UNCHANGED service

\* handle_interaction up to the call of execute_step, which is handed
\* state.get("last_workflow_state")
BeginTurn(t) ==
    /\ unit.task[t] = "received"
    /\ MayRun(t)
    /\ unit' = [unit EXCEPT
                  !.task[t] = "execute_step",
                  !.seen[t] = unit.last_workflow_state[unit.sid[t]],
                  !.waiting[t] = { u \in Turns \ {t} : unit.task[u] = "received" }]
    /\ UNCHANGED service

\* execute_step returns and update_session_metadata stores its metadata, or
\* execute_step raises and nothing is stored
EndTurn(t, returned) ==
    /\ unit.task[t] = "execute_step"
    /\ MayRun(t)
    /\ unit' = IF returned
               THEN [unit EXCEPT !.task[t] = "done",
                                 !.last_workflow_state[unit.sid[t]] = t]
               ELSE [unit EXCEPT !.task[t] = "failed"]
    /\ UNCHANGED service

TurnsNext ==
    \/ \E t \in Turns, sid \in SessionIds : Receive(t, sid)
    \/ \E t \in Turns : BeginTurn(t)
    \/ \E t \in Turns, returned \in BOOLEAN : EndTurn(t, returned)

SpecTurns == TurnsInit /\ [][TurnsNext]_vars

\* both turns stored their metadata in the same session
BothStored(t, u) ==
    /\ t # u
    /\ unit.task[t] = "done"
    /\ unit.task[u] = "done"
    /\ unit.sid[t] = unit.sid[u]

\* C21 (as stated): while one turn of a session is inside execute_step,
\* another received turn of that session can start and read the same prior
\* last_workflow_state.
C21_ConcurrentTurnsRace ==
    \A t, u \in Turns :
        (/\ t # u
         /\ unit.task[t] = "execute_step"
         /\ unit.task[u] = "received"
         /\ unit.sid[t] = unit.sid[u]) => MayRun(u)

\* C21: turns of one session run one after another: at most one turn is
\* inside execute_step, and no two turns that stored their metadata read
\* the same prior last_workflow_state, so no update is lost.
C21_TurnsSerialised ==
    /\ Cardinality({ t \in Turns : unit.task[t] = "execute_step" }) <= 1
    /\ \A t, u \in Turns : BothStored(t, u) => unit.seen[t] # unit.seen[u]

\* two requests of one session were in flight together and the later turn
\* read what the earlier one stored
C21_Witness ==
    \E t, u \in Turns :
        /\ BothStored(t, u)
        /\ u \in unit.waiting[t]
        /\ unit.seen[u] = t

----------------------------------------------------------------------------
\* SessionManager.save_snapshot called again and again, on its own.  Session
\* sA exists, session sB does not.  ret is the id the last call returned, 0
\* for the empty text.

MaxSaves == 3

SnapshotsInit ==
    /\ ServiceInit
    /\ unit = [ss |-> create_session(sessions, [f \in DiskNames |-> "b1"], "sA",
                                     << <<"t", ".", "csv">> >>),
               n |-> 0, sid |-> "sA", ret |-> 0]

SaveSnapshotCall(sid, code, layout_data, summary) ==
    /\ unit.n < MaxSaves
    /\ unit' = [ss |-> save_snapshot(unit.ss, sid, unit.n + 1, "q", code, layout_data, summary),
                n |-> unit.n + 1,
                sid |-> sid,
                ret |-> IF get_session(unit.ss, sid) = None THEN 0 ELSE unit.n + 1]
    /\ UNCHANGED service

SnapshotsNext ==
    \E sid \in SessionIds, code \in Codes, layout_data \in {LLMPlan, FallbackPlan},
       summary \in {"", "s"} :
        SaveSnapshotCall(sid, code, layout_data, summary)

SpecSnapshots == SnapshotsInit /\ [][SnapshotsNext]_vars

StoreOf(u) == u.ss["sA"].state_store

\* C22: a save_snapshot call on the session leaves the snapshots already
\* stored in place and unchanged, appends exactly one snapshot, returns its
\* id and makes it current; a call on another session id changes nothing;
\* current_snapshot_id is absent exactly when the store is empty.
C22_AppendOnly ==
    /\ [](StoreOf(unit).current_snapshot_id = 0 <=> StoreOf(unit).snapshots = <<>>)
    /\ [][ LET old == StoreOf(unit).snapshots
               new == StoreOf(unit').snapshots
           IN  IF unit'.sid = "sA"
               THEN /\ Len(new) = Len(old) + 1
                    /\ SubSeq(new, 1, Len(old)) = old
                    /\ new[Len(new)].snapshot_id = unit'.ret
                    /\ StoreOf(unit').current_snapshot_id = unit'.ret
               ELSE StoreOf(unit') = StoreOf(unit) ]_vars

\* a snapshot was appended behind two earlier ones
C22_Witness ==
    /\ unit.sid = "sA"
    /\ Len(StoreOf(unit).snapshots) = 3
    /\ StoreOf(unit).current_snapshot_id = unit.ret
    /\ StoreOf(unit).snapshots[3].snapshot_id = unit.ret
    /\ StoreOf(unit).snapshots[1].snapshot_id # unit.ret

----------------------------------------------------------------------------
\* CodeGenerator._clean_markdown and VizEditor._clean_markdown on their own.
\* An LLM text is a sequence of tokens: the fence of three backticks,
\* written "[fence]", the language tag "python", the line break, a token of
\* code and a token of prose.

MaxText == 4

TextTokens == {"[fence]", "python", "\n", "x", "hello"}

Texts == SeqsUpTo(TextTokens, MaxText) \cup {<<>>}

IsSpace(tok) == tok = "\n"

\* str.strip()
Strip(text) ==
    LET ns == { i \in 1..Len(text) : ~IsSpace(text[i]) }
    IN  IF ns = {} THEN <<>>
        ELSE SubSeq(text, CHOOSE i \in ns : \A j \in ns : i <= j,
                          CHOOSE i \in ns : \A j \in ns : j <= i)

\* the text behind its leading white space
LStrip(text) ==
    LET ns == { i \in 1..Len(text) : ~IsSpace(text[i]) }
    IN  IF ns = {} THEN <<>>
        ELSE SubSeq(text, CHOOSE i \in ns : \A j \in ns : i <= j, Len(text))

\* the text before its trailing white space
RStrip(text) ==
    LET ns == { i \in 1..Len(text) : ~IsSpace(text[i]) }
    IN  IF ns = {} THEN <<>>
        ELSE SubSeq(text, 1, CHOOSE i \in ns : \A j \in ns : j <= i)

\* the text behind an optional "python" and the white space after it:
\* what (?:python)?\s* leaves
AfterTag(text) ==
    LStrip(IF text # <<>> /\ text[1] = "python" THEN Tail(text) ELSE text)

\* re.sub(r"^```(python)?\s*", "", text)
StripOpeningFence(text) ==
    IF text # <<>> /\ text[1] = "[fence]" THEN AfterTag(Tail(text)) ELSE text

\* re.sub(r"\s*```$", "", text)
StripClosingFence(text) ==
    IF text # <<>> /\ text[Len(text)] = "[fence]"
    THEN RStrip(SubSeq(text, 1, Len(text) - 1))
    ELSE text

\* VizEditor._clean_markdown
VizEditor_clean_markdown(text) ==
    IF text = <<>> THEN <<>>
    ELSE Strip(StripClosingFence(StripOpeningFence(Strip(text))))

\* CodeGenerator._clean_markdown: re.search takes the first fence that has
\* another fence behind it, and group 1 runs up to the next fence
CodeGenerator_clean_markdown(text) ==
    LET fences == { i \in 1..Len(text) : text[i] = "[fence]" }
    IN  IF text = <<>> THEN <<>>
        ELSE IF Cardinality(fences) >= 2
        THEN LET open == CHOOSE i \in fences : \A j \in fences : i <= j
                 close == CHOOSE i \in fences \ {open} : \A j \in fences \ {open} : i <= j
             IN  Strip(AfterTag(SubSeq(text, open + 1, close - 1)))
        ELSE Strip(StripClosingFence(StripOpeningFence(Strip(text))))

CleanInit ==
    /\ ServiceInit
    /\ \E text \in Texts :
          unit = [text |-> text, generator |-> <<>>, editor |-> <<>>, done |-> FALSE]

CleanMarkdown ==
    /\ ~unit.done
    /\ unit' = [unit EXCEPT !.generator = CodeGenerator_clean_markdown(unit.text),
                            !.editor = VizEditor_clean_markdown(unit.text),
                            !.done = TRUE]
    /\ UNCHANGED service

CleanNext == CleanMarkdown

SpecClean == CleanInit /\ [][CleanNext]_vars

\* C26: for every LLM text the editor's and the generator's _clean_markdown
\* return the same text.
C26_SameNormalization ==
    unit.done => unit.editor = unit.generator

----------------------------------------------------------------------------
\* The name spaces of CodeExecutor.execute_dashboard_logic on its own:
\* exec(clean_code, self.global_context, local_scope) runs the top level of
\* the code with global_context as globals and a fresh local_scope as
\* locals; get_dashboard_data, defined by that code, has global_context as
\* its globals.  A code text reads some names at its top level, then binds
\* the name helper (an import, a def or an assignment) plainly, under a
\* global declaration, or not at all, and defines get_dashboard_data, whose
\* body reads some names.

MaxExecs == 2

\* the keys of self.global_context after __init__ (pd stands for all)
Preloaded == {"pd"}

CodeNames == {"pd", "helper"}

Programs ==
    [top_reads : SUBSET CodeNames, binds : {"none", "top", "global"},
     body_reads : SUBSET CodeNames]

\* variant: one dict serves as globals and locals of the exec
bound_in_globals_single_namespace(binds) ==
    IF binds \in {"top", "global"} THEN {"helper"} ELSE {}

\* the names the top level of the code stores into global_context: a plain
\* top-level binding goes to local_scope
bound_in_globals(binds) == IF binds = "global" THEN {"helper"} ELSE {}

\* the names the top level of the code stores into local_scope
bound_in_locals(binds) == IF binds = "top" THEN {"helper"} ELSE {}

\* NameError at the top level: a name read there is looked up in
\* local_scope, still empty, then in global_context
TopLevelNameError(global_context, program) ==
    ~(program.top_reads \subseteq global_context)

\* NameError inside get_dashboard_data: a free name of a function is looked
\* up in the function's globals
EntryNameError(global_context, program) ==
    ~(program.body_reads \subseteq global_context)

NamespaceInit ==
    /\ ServiceInit
    /\ unit = [global_context |-> Preloaded,
               n |-> 0,
               program |-> [top_reads |-> {}, binds |-> "none", body_reads |-> {}],
               before |-> Preloaded,
               name_error |-> FALSE,
               top_bound |-> {},
               top_bound_before |-> {},
               declared |-> {}]

\* one execute_dashboard_logic call; the NameError is caught and makes the
\* failure result
RunCode(program) ==
    /\ unit.n < MaxExecs
    /\ LET top_failed == TopLevelNameError(unit.global_context, program)
           after_exec == IF top_failed THEN unit.global_context
                         ELSE unit.global_context \cup bound_in_globals(program.binds)
       IN  unit' = [global_context |-> after_exec,
                    n |-> unit.n + 1,
                    program |-> program,
                    before |-> unit.global_context,
                    name_error |-> top_failed \/ EntryNameError(after_exec, program),
                    top_bound |-> IF top_failed THEN unit.top_bound
                                  ELSE unit.top_bound \cup bound_in_locals(program.binds),
                    top_bound_before |-> unit.top_bound,
                    declared |-> IF top_failed \/ program.binds # "global" THEN unit.declared
                                 ELSE unit.declared \cup {"helper"}]
    /\ UNCHANGED service

NamespaceNext == \E program \in Programs : RunCode(program)

SpecNamespace == NamespaceInit /\ [][NamespaceNext]_vars

\* the last code reads helper and does not bind it
ReadsForeignHelper ==
    /\ unit.n > 0
    /\ unit.program.binds = "none"
    /\ "helper" \in unit.program.top_reads \cup unit.program.body_reads

C28_TopLevelNamesResolve ==
    (/\ unit.n > 0
     /\ unit.program.binds = "top"
     /\ unit.program.top_reads \subseteq unit.before
     /\ unit.program.body_reads = {"helper"}) => ~unit.name_error

----------------------------------------------------------------------------
\* Properties of one turn, read off the call log

\* execute_step is running or has ended: its locals exist
InTurn == pc \notin {"idle", "ensure_full"}

\* the mode of the turn is decided and no exception has left execute_step
PastMode ==
    pc \in {"generate", "execute", "fix", "reexecute", "assemble", "returned", "append_history"}

Executions == CallsOf("execute_dashboard_logic")
Fixes == CallsOf("fix_code")
Edits == CallsOf("edit_dashboard_code")
Plans == CallsOf("plan_dashboard")
Generations == CallsOf("generate_dashboard_code")

\* position in the call log of the first call of op, 0 when there is none
FirstCall(op) ==
    LET hits == { i \in 1..Len(calls) : calls[i].op = op }
    IN  IF hits = {} THEN 0 ELSE CHOOSE i \in hits : \A j \in hits : i <= j

\* C1: when the first execution fails and the execution of the code that
\* fix_code returned succeeds, the executor has been called exactly twice,
\* fix_code exactly once with the first code and the first failure's error
\* text, and the returned dashboard's metadata last_code is the fixed code.
C1_SelfHealing ==
    (/\ pc \in {"returned", "append_history"}
     /\ ~Executions[1].ret.success) =>
        /\ Len(Executions) = 2
        /\ Executions[2].ret.success
        /\ Len(Fixes) = 1
        /\ Fixes[1].arg = <<Executions[1].arg[1], Executions[1].ret.error>>
        /\ Executions[2].arg[1] = Fixes[1].ret
        /\ loc.dashboard.metadata.last_code = Fixes[1].ret

\* a turn has returned a dashboard after a repair that changed the code
C1_Witness ==
    /\ pc = "returned"
    /\ Len(Fixes) = 1
    /\ Fixes[1].ret # Fixes[1].arg[1]
    /\ loc.dashboard.metadata.last_code # Executions[1].arg[1]

\* C2: in every turn whose first execution failed, exactly one fix_code call
\* and exactly one re-execution have been made when the handler answers, and
\* if the re-execution failed too the answer is 500.
C2_OneRepairAttempt ==
    (/\ pc = "respond"
     /\ Executions # <<>>
     /\ ~Executions[1].ret.success) =>
        /\ Len(Fixes) = 1
        /\ Len(Executions) = 2
        /\ (~Executions[2].ret.success => loc.status = 500)

\* C3: whenever POST /chat/interact answers with an error status, the
\* session's last_workflow_state is what it was when the request arrived.
C3_FailedTurnKeepsState ==
    (pc = "respond" /\ loc.status >= 400) =>
        sessions[Sid].last_workflow_state = pre.last_workflow_state

\* C4: a backtrack turn that names a snapshot saved for the session calls
\* neither the planner nor the generator nor the executor, and the dashboard
\* it returns is the layout the snapshot holds.
C4_BacktrackReturnsSnapshot ==
    (/\ InTurn
     /\ payload.trigger_type = "backtrack"
     /\ get_snapshot(sessions, Sid, payload.target_snapshot_id) # None) =>
        /\ Plans = <<>>
        /\ Generations = <<>>
        /\ Executions = <<>>
        /\ (pc = "returned" =>
              loc.dashboard =
                 get_snapshot(sessions, Sid, payload.target_snapshot_id).layout_data)

\* C5: when execute_step returns a generated or edited dashboard, the
\* session's store holds exactly one snapshot more than when the request
\* arrived, that snapshot holds the final code, and it is the current one.
C5_TurnSavesSnapshot ==
    pc = "returned" =>
        LET store == sessions[Sid].state_store
            n == Len(store.snapshots)
        IN  /\ n = Len(pre.state_store.snapshots) + 1
            /\ store.snapshots[n].code_snapshot = loc.current_code
            /\ store.current_snapshot_id = store.snapshots[n].snapshot_id

\* the session's last turn produced code
LastTurnProducedCode ==
    /\ pre.last_workflow_state # None
    /\ pre.last_workflow_state.last_code # ""

\* the editor was called once, on the prior code; planner and generator were not
EditPathTaken ==
    /\ Len(Edits) = 1
    /\ Edits[1].arg = <<pre.last_workflow_state.last_code>>
    /\ Plans = <<>>
    /\ Generations = <<>>

\* the planner was called once, then the generator once; the editor was not
GeneratePathTaken ==
    /\ Edits = <<>>
    /\ Len(Plans) = 1
    /\ (pc # "generate" =>
          /\ Len(Generations) = 1
          /\ FirstCall("plan_dashboard") < FirstCall("generate_dashboard_code"))

\* C6 (as the code has it): a turn takes the edit path exactly when the
\* session's last turn produced code and force_new is not set, whatever the
\* trigger type; in every other case it takes the generate path.
C6_EditIffLastCode ==
    PastMode =>
        IF LastTurnProducedCode /\ ~payload.force_new
        THEN EditPathTaken ELSE GeneratePathTaken

\* a natural-language turn on a session with prior code has taken the edit path
C6_Witness ==
    /\ pc = "execute"
    /\ payload.trigger_type = "nl"
    /\ LastTurnProducedCode
    /\ Len(Edits) = 1

\* C6 (as the spec has it): a turn takes the edit path exactly when the
\* trigger is a UI action, or the last turn produced code and force_new is
\* not set; in every other case it takes the generate path.
C6_EditIffUiOrLastCode ==
    PastMode =>
        IF payload.trigger_type = "ui" \/ (LastTurnProducedCode /\ ~payload.force_new)
        THEN EditPathTaken ELSE GeneratePathTaken

\* C7 (as the code has it): ensure_full_data_context is the first call of a
\* turn and is made once, before enrichment, planning, generation or
\* editing; from then on the session is flagged full and every table
\* execute_step works on is a full load.
C7_FullBeforeWorkflow ==
    InTurn =>
        /\ calls # <<>>
        /\ calls[1].op = "ensure_full_data_context"
        /\ Len(CallsOf("ensure_full_data_context")) = 1
        /\ sessions[Sid].is_full_data
        /\ \A i \in 1..Len(loc.data_context) : loc.data_context[i].full

\* a session that arrived on sampled tables is about to run planned and
\* generated code on a non-empty data context
C7_Witness ==
    /\ pc = "execute"
    /\ ~pre.is_full_data
    /\ Plans # <<>>
    /\ Generations # <<>>
    /\ loc.data_context # <<>>

\* C7 (as the spec has it): ensure_full_data_context is called immediately
\* before the first execution, and not before the planner, the generator or
\* the editor have run.
C7_FullLoadDeferred ==
    InTurn =>
        /\ FirstCall("execute_dashboard_logic") # 0 =>
              /\ FirstCall("execute_dashboard_logic") > 1
              /\ calls[FirstCall("execute_dashboard_logic") - 1].op = "ensure_full_data_context"
        /\ \A k \in 1..Len(calls) :
              calls[k].op \in {"plan_dashboard", "generate_dashboard_code", "edit_dashboard_code"}
                 => FirstCall("ensure_full_data_context") > k

\* C8: every session a lookup returns carries its own id, and a step that
\* operates on one session (create, save_snapshot, update_session_metadata,
\* ensure_full_data_context, delete_session, any step of a turn) leaves every
\* other session exactly as it was and still retrievable.
C8_Isolation ==
    [][ LET acting == IF pc = "idle" THEN resp'.session_id ELSE payload.session_id
        IN  /\ \A t \in SessionIds \ {acting} :
                  get_session(sessions', t) = get_session(sessions, t)
            /\ \A s \in SessionIds :
                  get_session(sessions', s) # None => get_session(sessions', s).session_id = s
      ]_vars

\* a turn has just overwritten one session's last_workflow_state while
\* another session exists
C8_Witness ==
    /\ pc = "append_history"
    /\ \E t \in SessionIds \ {Sid} :
          /\ sessions[t] # None
          /\ sessions[t].data_context # <<>>
          /\ sessions[t].last_workflow_state # sessions[Sid].last_workflow_state

\* C9: every table the executor is handed in a turn, for a path whose upload
\* the turn's own session ingested, was loaded from the bytes that session
\* uploaded under that path.
C9_OwnBytes ==
    \A k \in 1..Len(calls) :
        calls[k].op = "execute_dashboard_logic" =>
            \A i \in 1..Len(calls[k].arg[2]) :
                LET table == calls[k].arg[2][i]
                IN  owned[Sid][table.path] \notin {NoFile, "bad"} =>
                        table.bytes = owned[Sid][table.path]

\* C10: an upload without a loadable file is answered 400, and an upload is
\* answered 500 only when something else failed.
C10_NoLoadableIs400 ==
    resp.route = "upload" =>
        /\ (resp.cause = "no_loadable" => resp.status = 400)
        /\ (resp.status = 500 => resp.cause = "io")

\* C11: an exception leaves execute_step only after the one repair attempt
\* is exhausted (two executions, both failed, one fix_code call between
\* them): no failure of an LLM call aborts the turn by itself.
C11_RaiseOnlyAfterRepair ==
    pc = "raise" =>
        /\ Len(Executions) = 2
        /\ ~Executions[1].ret.success
        /\ ~Executions[2].ret.success
        /\ Len(Fixes) = 1
        /\ Fixes[1].ret # "raise"

\* the analyzer calls of the running turn made for a dataset whose summary
\* already held a merged analyzer result when the turn began
RepeatedAnalyses ==
    { i \in DOMAIN calls :
        /\ calls[i].op = "analyze"
        /\ \E k \in DOMAIN pre.summaries :
              /\ pre.summaries[k].path = calls[i].arg[1]
              /\ pre.summaries[k].analyzed }

\* C15: once a successful analyzer result was merged into a summary, no
\* later turn of the session invokes the analyzer for that dataset.
C15_AnalyzedOnce ==
    InTurn => RepeatedAnalyses = {}

C25_RelationsOnce ==
    \A s \in SessionIds :
        sessions[s] # None => sessions[s].relations_mapped <= 1

\* the payload the assembly gives a component for the value the code returned
PayloadOf(value) == IF value = "txt" THEN "content_txt" ELSE value

\* C29: when an edit-mode turn returns, its dashboard has the ids and types
\* of the previous dashboard in the same order, and each component's
\* data_payload comes from this turn's execution result: a component the
\* result has no entry for carries no payload.
C29_EditPayloadsAreFresh ==
    (pc = "returned" /\ EditPathTaken) =>
        LET prev == pre.last_workflow_state.last_layout.components
            now == loc.dashboard.components
            results == loc.exec_result.results
        IN  /\ Len(now) = Len(prev)
            /\ \A i \in DOMAIN now :
                  /\ now[i].id = prev[i].id
                  /\ now[i].type = prev[i].type
                  /\ now[i].data_payload =
                        IF now[i].id \in DOMAIN results
                        THEN PayloadOf(results[now[i].id])
                        ELSE "none"

-----------------------------------------------------------------------------
\* What uploads, snapshot saves and completed turns do to the session table,
\* on their own.  old is the session the last operation found under its id,
\* mode the branch the last turn took.

MaxOps == 4

ReplaceInit ==
    /\ ServiceInit
    /\ unit = [ss |-> sessions, dsk |-> disk, op |-> "none", sid |-> "sA",
               old |-> None, mode |-> "none", n |-> 0]

\* data.py line 67: the upload found a loadable file and calls create_session
ReplaceUpload(sid, bytes) ==
    /\ unit.n < MaxOps
    /\ LET dsk == [unit.dsk EXCEPT ![<<"t", ".", "csv">>] = bytes]
       IN  unit' = [ss |-> create_session(unit.ss, dsk, sid, << <<"t", ".", "csv">> >>),
                    dsk |-> dsk, op |-> "upload", sid |-> sid,
                    old |-> get_session(unit.ss, sid), mode |-> "none",
                    n |-> unit.n + 1]
    /\ UNCHANGED service

ReplaceSave(sid, code) ==
    /\ unit.n < MaxOps
    /\ unit' = [unit EXCEPT
                  !.ss = save_snapshot(unit.ss, sid, unit.n + 1, "q", code, LLMPlan, "s"),
                  !.op = "save", !.sid = sid,
                  !.old = get_session(unit.ss, sid), !.mode = "none",
                  !.n = unit.n + 1]
    /\ UNCHANGED service

\* a turn that ran to update_session_metadata: 404 without a session, else
\* the full load, the branch chosen from last_workflow_state, the metadata
ReplaceTurn(sid, code, force_new) ==
    /\ unit.n < MaxOps
    /\ LET found == get_session(unit.ss, sid)
           p == [NoPayload EXCEPT !.session_id = sid, !.force_new = force_new]
       IN  unit' = [unit EXCEPT
                      !.ss = IF found = None THEN unit.ss
                             ELSE update_session_metadata(
                                    ensure_full_data_context(unit.ss, unit.dsk, sid), sid,
                                    with_metadata(LLMPlan, code, NoResult).metadata),
                      !.op = "turn", !.sid = sid, !.old = found,
                      !.mode = IF found = None THEN "404"
                               ELSE IF is_edit_mode(found.last_workflow_state, p)
                                    THEN "edit" ELSE "generate",
                      !.n = unit.n + 1]
    /\ UNCHANGED service

ReplaceNext ==
    \/ \E sid \in SessionIds, bytes \in Bytes : ReplaceUpload(sid, bytes)
    \/ \E sid \in SessionIds, code \in Codes : ReplaceSave(sid, code)
    \/ \E sid \in SessionIds, code \in Codes, force_new \in BOOLEAN :
          ReplaceTurn(sid, code, force_new)

SpecReplace == ReplaceInit /\ [][ReplaceNext]_vars

\* C30: create_session under an id that already has a session leaves a
\* session with an empty snapshot store, no current snapshot, no
\* last_workflow_state and sampled data, whatever the earlier session held,
\* and leaves the other session alone; the turn that follows the upload
\* takes the generate path.
C30_UploadReplacesSession ==
    /\ [][ (unit'.op = "upload" /\ unit'.old # None) =>
              LET new == unit'.ss[unit'.sid]
              IN  /\ unit'.old = unit.ss[unit'.sid]
                  /\ new.state_store.snapshots = <<>>
                  /\ new.state_store.current_snapshot_id = 0
                  /\ new.last_workflow_state = None
                  /\ ~new.is_full_data
                  /\ \A k \in DOMAIN new.data_context : ~new.data_context[k].full
                  /\ \A s \in SessionIds \ {unit'.sid} : unit'.ss[s] = unit.ss[s] ]_vars
    /\ [][ (unit.op = "upload" /\ unit'.op = "turn" /\ unit'.sid = unit.sid) =>
              unit'.mode = "generate" ]_vars

\* a session holding a snapshot, full data and the metadata of a turn was
\* replaced by a second upload
C30_Witness ==
    /\ unit.op = "upload"
    /\ unit.old # None
    /\ unit.old.state_store.snapshots # <<>>
    /\ unit.old.state_store.current_snapshot_id # 0
    /\ unit.old.last_workflow_state # None
    /\ unit.old.is_full_data
    /\ unit.ss[unit.sid].state_store = EmptyStore
    /\ unit.ss[unit.sid].last_workflow_state = None
    /\ ~unit.ss[unit.sid].is_full_data

====
